---- MODULE Spec2Model ----
(***************************************************************************)
(* IR & OCV Testing Recorder (src/IR_OCV_Recorderr.py).                    *)
(*                                                                         *)
(* The state is the session dictionary of IROCV_RecorderApp, the widgets   *)
(* the handlers read and write (the four start-screen entries, the module  *)
(* code entry and the rows of the cell Treeview), and the workbook files   *)
(* on disk.  There is one action per button handler.                       *)
(*                                                                         *)
(* Texts typed by the user are drawn from small sets.  Pack names, module  *)
(* codes and file paths are sequences of one-character tokens, so that     *)
(* str.strip() and Entry.insert(0, ...) are computed, not assumed.  Cell   *)
(* texts are strings; float(), the Tcl value conversion of                 *)
(* Treeview.item()["values"] and str() of a stored value are tables over   *)
(* those strings.  Floats are integers scaled by 10000 (6.0 is 60000).     *)
(***************************************************************************)
EXTENDS Integers, Sequences, FiniteSets, TLC

\* ------------------------------------------------------------- bounds
\* Largest integer typed into "Number of Modules".
MaxModules == 2
\* Largest integer typed into "Cells per Module".
MaxCells == 2
\* Number of in-cell edits (on_cell_edit_done) and module-code edits in a run.
MaxEdits == 2
\* Longest text (in tokens) a pack name or pack code entry holds.
MaxNameLen == 1
\* Largest number of Module_ sheets in a workbook that exists before the run.
MaxOldSheets == 2
\* Module indices of up to this many digits are tried as sheet names.
MaxDigits == 4

\* ------------------------------------------------- program constants
\* self.OCV_MIN = 0.0 and self.OCV_MAX = 6.0, scaled by 10000.
OCV_MIN == 0
OCV_MAX == 60000

\* ------------------------------------------------------ texts: tokens
\* Texts typed into "Battery Pack Name" and into "Battery Pack Code".
NameTexts == {<<" ">>, <<"P">>}
PackCodeTexts == {<<"P">>}
\* Texts typed into the module code entry.
CodeTexts == {<<"M">>}
\* Texts typed into "Number of Modules" and into "Cells per Module".
ModulesTexts == {"abc"} \cup {ToString(n) : n \in 1..MaxModules}
CellsTexts == {"0", ToString(MaxCells)}

RECURSIVE LStrip(_)
LStrip(s) == IF s # << >> /\ Head(s) = " " THEN LStrip(Tail(s)) ELSE s

RECURSIVE RStrip(_)
RStrip(s) ==
    IF s # << >> /\ s[Len(s)] = " " THEN RStrip(SubSeq(s, 1, Len(s) - 1)) ELSE s

\* str.strip()
Strip(s) == RStrip(LStrip(s))

\* int(text): the integer, or "ValueError".
ParseInt(t) ==
    IF \E n \in -1..(MaxModules + MaxCells + 4) : ToString(n) = t
    THEN [ok |-> TRUE, v |-> CHOOSE n \in -1..(MaxModules + MaxCells + 4) : ToString(n) = t]
    ELSE [ok |-> FALSE, v |-> 0]

\* -------------------------------------------------- texts: cell values
\* float(text) for the texts a cell can hold, scaled by 10000.
FloatTable ==
    ("0" :> 0) @@ ("0.0" :> 0) @@ ("-5" :> -50000) @@ ("-5.0" :> -50000) @@
    ("12" :> 120000) @@ ("12.0" :> 120000) @@ ("12.5" :> 125000) @@
    ("3.7" :> 37000) @@ ("6.0" :> 60000) @@ ("6.01" :> 60100) @@
    ("-0.01" :> -100) @@ ("0.0001" :> 1)

\* The texts int() accepts: Treeview.item()["values"] hands these back as int.
IntTexts == {"0", "-5", "12"}

\* repr of a float: the texts str(float) produces.
CanonTexts == {"0.0", "-5.0", "12.0", "12.5", "3.7", "6.0", "6.01", "-0.01", "0.0001"}

\* Texts the user types into the IR and OCV columns, battery code and notes.
IRTexts == {"12", "-5"}
OCVTexts == {"3.7", "6.01", "abc"}
BatteryTexts == {"B1"}

\* The IR and OCV texts at the limits of the checks of save_module_data.
BoundIRTexts == {"", "0", "0.0", "0.0001"}
BoundOCVTexts == {"", "0.0", "6.0", "-0.01", "6.01"}

\* Parsed / stored values: absent (None), NaN, or a number.
None == [k |-> "none", v |-> 0]
NaN == [k |-> "nan", v |-> 0]
Num(v) == [k |-> "num", v |-> v]
ValueError == [k |-> "error", v |-> 0]

\* Truth value of a value of Treeview.item()["values"]: the text is converted
\* by int() when int() accepts it, so "0" is the integer 0, which is false.
Truthy(t) == IF t \in IntTexts THEN FloatTable[t] # 0 ELSE t # ""

\* float(x) of such a value.
ParseFloat(t) ==
    IF t \in DOMAIN FloatTable THEN Num(FloatTable[t])
    ELSE IF t = "nan" THEN NaN
    ELSE ValueError

\* float(s) if s else None
OptFloat(t) == IF Truthy(t) THEN ParseFloat(t) ELSE None

\* str(value) as Treeview.insert formats a value of a buffered row.
Display(x) ==
    CASE x.k = "none" -> "None"
      [] x.k = "nan" -> "nan"
      [] OTHER -> CHOOSE t \in CanonTexts : FloatTable[t] = x.v

\* ------------------------------------------------------ cell table
\* The rows module_entry_screen / load_module_data put in the Treeview for a
\* module without buffered data: (i, "", "", "", "").
FreshRow(i) == [ci |-> i, bc |-> "", ir |-> "", ocv |-> "", notes |-> ""]

FreshRows(n) == [i \in 1..n |-> FreshRow(i)]

\* A save_module_data loop body without the "ir <= 0" check.
CheckRowNoIrCheck(r) ==
    LET ir == OptFloat(r.ir)
        ocv == OptFloat(r.ocv)
    IN  IF ir.k = "error" \/ ocv.k = "error"
        THEN [ok |-> FALSE, err |-> "value", ir |-> None, ocv |-> None]
        ELSE IF ocv.k # "none" /\ ~(ocv.k = "num" /\ OCV_MIN <= ocv.v /\ ocv.v <= OCV_MAX)
        THEN [ok |-> FALSE, err |-> "ocv", ir |-> None, ocv |-> None]
        ELSE [ok |-> TRUE, err |-> "none", ir |-> ir, ocv |-> ocv]

\* The body of save_module_data's loop for one Treeview row: both float()
\* conversions, then the IR check, then the OCV check.  A NaN passes
\* "ir <= 0" (the comparison is false) and fails "OCV_MIN <= ocv <= OCV_MAX".
CheckRow(r) ==
    LET ir == OptFloat(r.ir)
        ocv == OptFloat(r.ocv)
    IN  IF ir.k = "error" \/ ocv.k = "error"
        THEN [ok |-> FALSE, err |-> "value", ir |-> None, ocv |-> None]
        ELSE IF ir.k = "num" /\ ir.v <= 0
        THEN [ok |-> FALSE, err |-> "ir", ir |-> None, ocv |-> None]
        ELSE IF ocv.k # "none" /\ ~(ocv.k = "num" /\ OCV_MIN <= ocv.v /\ ocv.v <= OCV_MAX)
        THEN [ok |-> FALSE, err |-> "ocv", ir |-> None, ocv |-> None]
        ELSE [ok |-> TRUE, err |-> "none", ir |-> ir, ocv |-> ocv]

\* The loop of save_module_data over the Treeview rows: it stops at the first
\* row that fails (break), with the rows accepted so far in the local list.
RECURSIVE ScanRows(_, _, _, _, _)
ScanRows(sess, code, tree, rows, missing) ==
    IF Len(rows) = Len(tree)
    THEN [ok |-> TRUE, rows |-> rows, missing |-> missing, bad |-> 0, err |-> "none"]
    ELSE LET r == tree[Len(rows) + 1]
             c == CheckRow(r)
             m == missing \/ ~Truthy(r.bc)
             row == [pn |-> sess.pack_name, pc |-> sess.pack_code,
                     mi |-> sess.current_module_index, mc |-> code,
                     ci |-> r.ci, bc |-> r.bc, ir |-> c.ir, ocv |-> c.ocv,
                     notes |-> r.notes]
         IN  IF c.ok
             THEN ScanRows(sess, code, tree, Append(rows, row), m)
             ELSE [ok |-> FALSE, rows |-> rows, missing |-> m, bad |-> r.ci, err |-> c.err]

\* pd.DataFrame(rows, columns=...): a column holding only None stays None
\* (dtype object); a None beside a float becomes NaN (dtype float64).
MakeDataFrame(rows) ==
    LET irAllNone == \A i \in 1..Len(rows) : rows[i].ir.k = "none"
        ocvAllNone == \A i \in 1..Len(rows) : rows[i].ocv.k = "none"
        co(allNone, x) == IF x.k = "none" /\ ~allNone THEN NaN ELSE x
    IN  [i \in 1..Len(rows) |->
            [rows[i] EXCEPT !.ir = co(irAllNone, @), !.ocv = co(ocvAllNone, @)]]

\* ------------------------------------------------------- module_data
\* session["module_data"] is a dict: an association list in insertion order.
MDKeys(md) == {md[i].key : i \in 1..Len(md)}

MDGet(md, k) == md[CHOOSE i \in 1..Len(md) : md[i].key = k].val

\* d[k] = v: a present key keeps its place, a new key goes last.
MDPut(md, k, v) ==
    IF k \in MDKeys(md)
    THEN [i \in 1..Len(md) |-> IF md[i].key = k THEN [key |-> k, val |-> v] ELSE md[i]]
    ELSE Append(md, [key |-> k, val |-> v])

\* A save_module_data that writes the rows collected before the failing row
\* to module_data instead of returning with module_data untouched.
BufferedPartial(sess, code, scan, silent, confirm) ==
    IF scan.missing /\ ~silent /\ ~confirm /\ scan.ok
    THEN [ret |-> FALSE, why |-> "declined", md |-> sess.module_data, export |-> FALSE]
    ELSE [ret |-> scan.ok, why |-> IF scan.ok THEN "ok" ELSE "invalid",
          md |-> MDPut(sess.module_data, sess.current_module_index,
                       [module_code |-> code, dataframe |-> MakeDataFrame(scan.rows)]),
          export |-> scan.ok /\ ~silent]

\* A save_module_data that writes module_data before it asks "Some battery
\* codes are missing. Continue saving?".
BufferedBeforePrompt(sess, code, scan, silent, confirm) ==
    IF ~scan.ok
    THEN [ret |-> FALSE, why |-> "invalid", md |-> sess.module_data, export |-> FALSE]
    ELSE [ret |-> ~(scan.missing /\ ~silent /\ ~confirm),
          why |-> IF scan.missing /\ ~silent /\ ~confirm THEN "declined" ELSE "ok",
          md |-> MDPut(sess.module_data, sess.current_module_index,
                       [module_code |-> code, dataframe |-> MakeDataFrame(scan.rows)]),
          export |-> ~silent /\ ~(scan.missing /\ ~confirm)]

\* A save_module_data whose call of write_to_excel is guarded by "if silent:".
BufferedExportWhenSilent(sess, code, scan, silent, confirm) ==
    IF ~scan.ok
    THEN [ret |-> FALSE, why |-> "invalid", md |-> sess.module_data, export |-> FALSE]
    ELSE IF scan.missing /\ ~silent /\ ~confirm
    THEN [ret |-> FALSE, why |-> "declined", md |-> sess.module_data, export |-> FALSE]
    ELSE [ret |-> TRUE, why |-> "ok",
          md |-> MDPut(sess.module_data, sess.current_module_index,
                       [module_code |-> code, dataframe |-> MakeDataFrame(scan.rows)]),
          export |-> silent]

\* save_module_data(silent), up to and including the write to module_data.
\* confirm is the user's answer to "Some battery codes are missing. Continue
\* saving?".  ret is the value the function is about to return, export
\* whether it goes on to call write_to_excel.
Buffered(sess, code, scan, silent, confirm) ==
    IF ~scan.ok
    THEN [ret |-> FALSE, why |-> "invalid", md |-> sess.module_data, export |-> FALSE]
    ELSE IF scan.missing /\ ~silent /\ ~confirm
    THEN [ret |-> FALSE, why |-> "declined", md |-> sess.module_data, export |-> FALSE]
    ELSE [ret |-> TRUE, why |-> "ok",
          md |-> MDPut(sess.module_data, sess.current_module_index,
                       [module_code |-> code, dataframe |-> MakeDataFrame(scan.rows)]),
          export |-> ~silent]

SaveModuleData(sess, codeEntry, tree, silent, confirm) ==
    Buffered(sess, Strip(codeEntry),
             ScanRows(sess, Strip(codeEntry), tree, << >>, FALSE), silent, confirm)

\* load_module_data: the module code entry and the Treeview rows shown for
\* module idx: the buffered rows formatted by str(), or fresh rows.
LoadModuleData(sess, idx) ==
    IF idx \in MDKeys(sess.module_data)
    THEN LET rec == MDGet(sess.module_data, idx)
             df == rec.dataframe
         IN  [code |-> rec.module_code,
              tree |-> [i \in 1..Len(df) |->
                          [ci |-> df[i].ci, bc |-> df[i].bc, ir |-> Display(df[i].ir),
                           ocv |-> Display(df[i].ocv), notes |-> df[i].notes]]]
    ELSE [code |-> << >>, tree |-> FreshRows(sess.cells_per_module)]

\* ---------------------------------------------------------- workbook
\* A workbook: its Module_ sheets by module index, their order in
\* wb.sheetnames, and the Summary sheet.  A sheet is its rows and whether the
\* workbook holds the table ModuleTable<idx> on it.  A row is blank (its cell
\* values are None), the header row, or a row of a DataFrame.
Blank == [k |-> "blank"]

Header == [k |-> "header"]

DataRow(r) == [k |-> "data", row |-> r]

NoSummary == [present |-> FALSE, hasPack |-> FALSE, packName |-> << >>, packCode |-> << >>,
              rows |-> << >>, finalRow |-> 0, sumFirst |-> 0, sumLast |-> 0,
              allIr |-> << >>, allOcv |-> << >>]

\* Workbook() with the default sheet removed.
EmptyWorkbook == [order |-> << >>, sheets |-> << >>, summary |-> NoSummary]

\* A file openpyxl cannot read.
Corrupt == [corrupt |-> TRUE]

IsWorkbook(f) == "sheets" \in DOMAIN f

\* f"Module_{module_idx:03d}" without the prefix: the digits, zero-padded to 3.
RECURSIVE DigitsOf(_)
DigitsOf(n) == IF n < 10 THEN <<n>> ELSE Append(DigitsOf(n \div 10), n % 10)

SheetName(idx) ==
    LET d == DigitsOf(idx)
    IN  IF Len(d) >= 3 THEN d ELSE [i \in 1..(3 - Len(d)) |-> 0] \o d

\* str < str on sheet names (the common prefix "Module_" left out).
RECURSIVE NameLess(_, _)
NameLess(a, b) ==
    IF a = << >> THEN b # << >>
    ELSE IF b = << >> THEN FALSE
    ELSE IF Head(a) # Head(b) THEN Head(a) < Head(b)
    ELSE NameLess(Tail(a), Tail(b))

\* sorted([s for s in wb.sheetnames if s.startswith("Module_")]), as indices.
RECURSIVE SortedSheets(_)
SortedSheets(S) ==
    IF S = {} THEN << >>
    ELSE LET m == CHOOSE x \in S :
                     \A y \in S \ {x} : NameLess(SheetName(x), SheetName(y))
         IN  <<m>> \o SortedSheets(S \ {m})

\* get_column_letter for the columns the code asks for.
ColumnLetter(n) == CASE n = 8 -> "H" [] n = 9 -> "I" [] OTHER -> "?"

\* ws.max_column of a module sheet: the ten DataFrame columns.
MaxColumn == 10

\* The module-sheet loop body of write_to_excel for one buffered module:
\* clear the cells of an existing sheet (the rows stay, ws.max_row is
\* unchanged), or create the sheet; ws.append the header and the rows after
\* the last row; add the table (openpyxl refuses a table name the workbook
\* already holds).
WriteSheet(wb, idx, data) ==
    LET exists == idx \in DOMAIN wb.sheets
        old == IF exists THEN wb.sheets[idx] ELSE [rows |-> << >>, table |-> FALSE]
        cleared == [j \in 1..Len(old.rows) |-> Blank]
        written == cleared \o <<Header>> \o
                   [j \in 1..Len(data.dataframe) |-> DataRow(data.dataframe[j])]
    IN  IF old.table
        THEN [ok |-> FALSE, wb |-> wb]
        ELSE [ok |-> TRUE,
              wb |-> [wb EXCEPT
                        !.sheets = (idx :> [rows |-> written, table |-> TRUE]) @@ @,
                        !.order = IF exists THEN @ ELSE Append(@, idx)]]

\* for module_idx, data in self.session["module_data"].items(): ...
RECURSIVE WriteSheets(_, _, _)
WriteSheets(wb, md, i) ==
    IF i > Len(md) THEN [ok |-> TRUE, wb |-> wb]
    ELSE LET w == WriteSheet(wb, md[i].key, md[i].val)
         IN  IF w.ok THEN WriteSheets(w.wb, md, i + 1) ELSE w

\* Rows with the trailing empty rows dropped, as pd.read_excel drops them.
RECURSIVE DropTrailingBlank(_)
DropTrailingBlank(rows) ==
    IF rows # << >> /\ rows[Len(rows)].k = "blank"
    THEN DropTrailingBlank(SubSeq(rows, 1, Len(rows) - 1))
    ELSE rows

\* pd.read_excel(filename, sheet_name=...) followed by
\*   module_df["ModuleCode"].iloc[0] if not module_df.empty else "N/A"
\*   len(module_df)
\* on the file as it is on disk.  The first row of the sheet is the header
\* line; a first row that is not the header has no "ModuleCode" column.
ReadModule(d, filename, idx) ==
    IF filename \notin DOMAIN d THEN [ok |-> FALSE, code |-> << >>, count |-> 0]
    ELSE IF ~IsWorkbook(d[filename]) THEN [ok |-> FALSE, code |-> << >>, count |-> 0]
    ELSE IF idx \notin DOMAIN d[filename].sheets
    THEN [ok |-> FALSE, code |-> << >>, count |-> 0]
    ELSE LET rows == DropTrailingBlank(d[filename].sheets[idx].rows)
             body == IF rows = << >> THEN << >> ELSE Tail(rows)
         IN  IF body = << >> THEN [ok |-> TRUE, code |-> <<"N/A">>, count |-> 0]
             ELSE IF rows[1].k # "header" THEN [ok |-> FALSE, code |-> << >>, count |-> 0]
             ELSE [ok |-> TRUE,
                   code |-> CASE body[1].k = "data" ->
                                   IF body[1].row.mc = << >> THEN <<"nan">>
                                   ELSE body[1].row.mc
                              [] body[1].k = "header" -> <<"ModuleCode">>
                              [] OTHER -> <<"nan">>,
                   count |-> Len(body)]

\* The Summary rows of write_to_excel: one per module sheet in sorted order,
\* then PACK_TOTALS.  A range is sheet!<col>2:<col><ws.max_row> of the
\* workbook in memory; code and count are read from the file on disk.
SummaryRow(wb, d, filename, names, i) ==
    LET idx == names[i]
        ws == wb.sheets[idx]
        rd == ReadModule(d, filename, idx)
        rowNum == i + 1
    IN  [ok |-> rd.ok,
         row |-> [rowNum |-> rowNum, moduleIndex |-> idx, moduleCode |-> rd.code,
                  cellCount |-> rd.count,
                  irRange |-> [sheet |-> idx, col |-> ColumnLetter(MaxColumn - 2),
                               first |-> 2, last |-> Len(ws.rows)],
                  ocvRange |-> [sheet |-> idx, col |-> ColumnLetter(MaxColumn - 1),
                                first |-> 2, last |-> Len(ws.rows)],
                  irRangeFormula |-> [max |-> <<"E", rowNum>>, min |-> <<"F", rowNum>>],
                  ocvRangeFormula |-> [max |-> <<"I", rowNum>>, min |-> <<"J", rowNum>>]]]

SummaryOf(names, rs) ==
    [ok |-> \A i \in 1..Len(names) : rs[i].ok,
     count |-> Len(names),
     summary |-> [present |-> TRUE, hasPack |-> FALSE, packName |-> << >>,
                  packCode |-> << >>,
                  rows |-> [i \in 1..Len(names) |-> rs[i].row],
                  finalRow |-> Len(names) + 2, sumFirst |-> 2,
                  sumLast |-> (Len(names) + 2) - 1,
                  allIr |-> [i \in 1..Len(names) |-> rs[i].row.irRange],
                  allOcv |-> [i \in 1..Len(names) |-> rs[i].row.ocvRange]]]

BuildSummaryRows(wb, d, filename, names) ==
    SummaryOf(names, [i \in 1..Len(names) |-> SummaryRow(wb, d, filename, names, i)])

BuildSummary(wb, d, filename) ==
    BuildSummaryRows(wb, d, filename, SortedSheets(DOMAIN wb.sheets))

\* The except clause of write_to_excel: nothing saved, the session untouched.
\* why is "error" for an exception raised before wb.save and "ioerror" for
\* one raised by wb.save itself.
WriteFailed(sess, d, why) ==
    [ok |-> FALSE, why |-> why, disk |-> d, modules_completed |-> sess.modules_completed]

\* A write_to_excel that sets modules_completed before wb.save, so that a
\* failing save leaves the counter advanced.
SaveWorkbookCountFirst(sess, d, wb, sm, saveOk) ==
    IF ~sm.ok THEN WriteFailed(sess, d, "error")
    ELSE IF ~saveOk
    THEN [ok |-> FALSE, why |-> "ioerror", disk |-> d, modules_completed |-> sm.count]
    ELSE [ok |-> TRUE, why |-> "ok",
          disk |-> (sess.filename :> [wb EXCEPT !.summary = sm.summary]) @@ d,
          modules_completed |-> sm.count]

\* wb.save(filename) and, after it, modules_completed = len(module_sheets).
\* saveOk is whether wb.save succeeds (the file may be locked, the disk full).
SaveWorkbook(sess, d, wb, sm, saveOk) ==
    IF ~sm.ok THEN WriteFailed(sess, d, "error")
    ELSE IF ~saveOk THEN WriteFailed(sess, d, "ioerror")
    ELSE [ok |-> TRUE, why |-> "ok",
          disk |-> (sess.filename :> [wb EXCEPT !.summary = sm.summary]) @@ d,
          modules_completed |-> sm.count]

\* del wb['Summary'], the new Summary, the save.
RebuildSummary(sess, d, w, saveOk) ==
    IF ~w.ok THEN WriteFailed(sess, d, "error")
    ELSE SaveWorkbook(sess, d, [w.wb EXCEPT !.summary = NoSummary],
                      BuildSummary([w.wb EXCEPT !.summary = NoSummary], d, sess.filename),
                      saveOk)

\* write_to_excel: open or create the workbook, write the module sheets,
\* rebuild the Summary, save.  Every failure lands in the except clause.
WriteToExcel(sess, d, saveOk) ==
    IF sess.filename \in DOMAIN d /\ ~IsWorkbook(d[sess.filename])
    THEN WriteFailed(sess, d, "error")
    ELSE RebuildSummary(sess, d,
                        WriteSheets(IF sess.filename \in DOMAIN d THEN d[sess.filename]
                                    ELSE EmptyWorkbook,
                                    sess.module_data, 1),
                        saveOk)

\* ------------------------------------------------------------- state
VARIABLES
    session,            \* self.session
    screen,             \* "start", "module" or "closed" (root destroyed)
    entries,            \* self.entries: the texts of the four start-screen entries
    module_code_entry,  \* the text of self.module_code_entry
    cell_tree,          \* the rows of self.cell_tree
    disk,               \* the files that exist: path -> workbook
    last,               \* what the last handler did (for the properties)
    edits               \* number of edits made so far

vars == <<session, screen, entries, module_code_entry, cell_tree, disk, last, edits>>

\* The paths of the workbooks that exist before the run, and of a file that
\* is no workbook.
OldPath(kind, n) == <<kind, ToString(n), ".xlsx">>

BadPath == <<"bad.xlsx">>

\* The paths of a workbook with a sheet named "Module_abc" and of a workbook
\* whose Summary has the PackName column and no row under the header.
OddSheetPath == <<"odd.xlsx">>

HeaderOnlyPath == <<"headeronly.xlsx">>

\* f"{pack_name}_{timestamp}.xlsx"
GeneratedName(pack_name) == pack_name \o <<"_", "T", ".xlsx">>

\* A module sheet of a workbook that exists before the run: the header and
\* one measurement row.
OldSheet(idx, tabled) ==
    [rows |-> <<Header,
                DataRow([pn |-> <<"L">>, pc |-> <<"K">>, mi |-> idx, mc |-> <<"O">>,
                         ci |-> 1, bc |-> "B0", ir |-> Num(125000), ocv |-> Num(37000),
                         notes |-> ""])>>,
     table |-> tabled]

\* A workbook that exists before the run, with sheets Module_001..Module_n:
\* "plain" has no tables and no Summary, "program" is laid out as
\* write_to_excel lays it out, "foreign" has a Summary with PackName and
\* PackCode columns.
OldBook(n, kind) ==
    LET wb == [order |-> [i \in 1..n |-> i],
               sheets |-> [i \in 1..n |-> OldSheet(i, kind = "program")],
               summary |-> NoSummary]
        path == OldPath(kind, n)
        self == (path :> wb)
    IN  CASE kind = "plain" -> wb
          [] kind = "program" -> [wb EXCEPT !.summary = BuildSummary(wb, self, path).summary]
          [] OTHER -> [wb EXCEPT !.summary =
                          [BuildSummary(wb, self, path).summary EXCEPT
                              !.hasPack = TRUE, !.packName = <<"P">>, !.packCode = <<"P">>]]

\* A workbook with a sheet "Module_abc" beside Module_001: int("abc") in
\* load_workbook raises ValueError.
OddSheetBook ==
    [order |-> OldBook(1, "plain").order, sheets |-> OldBook(1, "plain").sheets,
     summary |-> NoSummary, odd |-> <<"Module_abc">>]

HasOddSheet(f) == "odd" \in DOMAIN f

\* A workbook whose Summary sheet has the column PackName and no row under
\* the header: summary_df.loc[0, "PackName"] raises KeyError.
HeaderOnlyBook ==
    [OldBook(1, "plain") EXCEPT !.summary = [NoSummary EXCEPT !.present = TRUE,
                                                              !.hasPack = TRUE]]

SummaryUnreadable(f) ==
    f.summary.present /\ f.summary.hasPack /\ f.summary.finalRow = 0

\* The files on disk when the program starts: plain workbooks with 0 to
\* MaxOldSheets module sheets, a program-made and a foreign one with
\* MaxOldSheets, a file that is no workbook, and two workbooks load_workbook
\* fails on.
InitDisk ==
    LET olds == {<<"plain", n>> : n \in 0..MaxOldSheets} \cup
                {<<"program", MaxOldSheets>>, <<"foreign", MaxOldSheets>>}
    IN  [p \in {OldPath(o[1], o[2]) : o \in olds} \cup
                {BadPath, OddSheetPath, HeaderOnlyPath} |->
            CASE p = BadPath -> Corrupt
              [] p = OddSheetPath -> OddSheetBook
              [] p = HeaderOnlyPath -> HeaderOnlyBook
              [] OTHER -> LET o == CHOOSE o \in olds : OldPath(o[1], o[2]) = p
                          IN  OldBook(o[2], o[1])]

NoEntries == [name |-> << >>, code |-> << >>, nm |-> "", cpm |-> ""]

\* last: the handler that ran, how its save_module_data call ended ("ok",
\* "invalid", "declined", or "none" without a call), what became of
\* write_to_excel (see Export), and whether the module index moved.
Did(op, ret, export, moved) == [op |-> op, ret |-> ret, export |-> export, moved |-> moved]

\* self.session as __init__ builds it.
FreshSession ==
    [pack_name |-> << >>, pack_code |-> << >>, num_modules |-> 0,
     cells_per_module |-> 0, filename |-> << >>, modules_completed |-> 0,
     current_module_index |-> 1, module_data |-> << >>]

Init ==
    /\ session = FreshSession
    /\ screen = "start"
    /\ entries = NoEntries
    /\ module_code_entry = << >>
    /\ cell_tree = << >>
    /\ disk = InitDisk
    /\ last = Did("init", "none", "none", FALSE)
    /\ edits = 0

\* ------------------------------------------------------ start screen
\* A validate_pack_setup that stores the pack name and code as soon as it
\* has read them, before the checks.
ValidatePackSetupEager(sess, ent) ==
    LET pack_name == Strip(ent.name)
        pack_code == Strip(ent.code)
        nm == ParseInt(ent.nm)
        cpm == ParseInt(ent.cpm)
        early == [sess EXCEPT !.pack_name = pack_name, !.pack_code = pack_code]
    IN  IF ~nm.ok \/ ~cpm.ok \/ pack_name = << >> \/ pack_code = << >>
           \/ nm.v <= 0 \/ cpm.v <= 0
        THEN [ok |-> FALSE, sess |-> early]
        ELSE [ok |-> TRUE,
              sess |-> [early EXCEPT !.num_modules = nm.v, !.cells_per_module = cpm.v]]

\* validate_pack_setup: the session with the four fields set, or a failure
\* that leaves the session alone.
ValidatePackSetup(sess, ent) ==
    LET pack_name == Strip(ent.name)
        pack_code == Strip(ent.code)
        nm == ParseInt(ent.nm)
        cpm == ParseInt(ent.cpm)
    IN  IF ~nm.ok \/ ~cpm.ok THEN [ok |-> FALSE, sess |-> sess]
        ELSE IF pack_name = << >> THEN [ok |-> FALSE, sess |-> sess]
        ELSE IF pack_code = << >> THEN [ok |-> FALSE, sess |-> sess]
        ELSE IF nm.v <= 0 THEN [ok |-> FALSE, sess |-> sess]
        ELSE IF cpm.v <= 0 THEN [ok |-> FALSE, sess |-> sess]
        ELSE [ok |-> TRUE,
              sess |-> [sess EXCEPT !.pack_name = pack_name, !.pack_code = pack_code,
                                    !.num_modules = nm.v, !.cells_per_module = cpm.v]]

\* start_new_session, given the entries: the session after it and whether the
\* module entry screen is opened.
StartedSession(sess, v) ==
    IF v.ok
    THEN [ok |-> TRUE, sess |-> [v.sess EXCEPT !.filename = GeneratedName(v.sess.pack_name)]]
    ELSE [ok |-> FALSE, sess |-> sess]

StartNewSessionResult(sess, ent) == StartedSession(sess, ValidatePackSetup(sess, ent))

\* module_entry_screen: the start screen's widgets are destroyed, the module
\* code entry is empty and the table holds cells_per_module fresh rows.
ModuleEntryScreen(sess) ==
    /\ screen' = "module"
    /\ entries' = NoEntries
    /\ module_code_entry' = << >>
    /\ cell_tree' = FreshRows(sess.cells_per_module)

\* The user types into one of the four entries of the start screen.
TypeEntry ==
    /\ screen = "start"
    /\ \/ \E t \in NameTexts : entries' = [entries EXCEPT !.name = t]
       \/ \E t \in PackCodeTexts : entries' = [entries EXCEPT !.code = t]
       \/ \E t \in ModulesTexts : entries' = [entries EXCEPT !.nm = t]
       \/ \E t \in CellsTexts : entries' = [entries EXCEPT !.cpm = t]
    /\ last' = Did("type", "none", "none", FALSE)
    /\ UNCHANGED <<session, screen, module_code_entry, cell_tree, disk, edits>>

StartNewSession ==
    /\ screen = "start"
    /\ \E r \in {StartNewSessionResult(session, entries)} :
           /\ session' = r.sess
           /\ IF r.ok THEN ModuleEntryScreen(r.sess)
              ELSE UNCHANGED <<screen, entries, module_code_entry, cell_tree>>
           /\ last' = Did("start", IF r.ok THEN "ok" ELSE "invalid", "none", FALSE)
    /\ UNCHANGED <<disk, edits>>

\* load_workbook with the path the file dialog returned (<< >>: cancelled).
\* ok: no exception; enter: the module entry screen is opened.
LoadedSession(sess2, ent1) ==
    [ok |-> TRUE,
     enter |-> sess2.num_modules > 0 /\ sess2.cells_per_module > 0,
     sess |-> sess2, ent |-> ent1]

\* A load_workbook that continues at the highest module index instead of
\* the one after it.
LoadedWorkbookSameIndex(sess, ent1, filepath, indices) ==
    LoadedSession(
        ValidatePackSetup(
            [sess EXCEPT !.filename = filepath,
                         !.current_module_index =
                             IF indices = {} THEN 1
                             ELSE CHOOSE m \in indices : \A x \in indices : x <= m],
            ent1).sess,
        ent1)

LoadedWorkbook(sess, ent1, filepath, indices) ==
    LoadedSession(
        ValidatePackSetup(
            [sess EXCEPT !.filename = filepath,
                         !.current_module_index =
                             1 + (IF indices = {} THEN 0
                                  ELSE CHOOSE m \in indices : \A x \in indices : x <= m)],
            ent1).sess,
        ent1)

\* A load_workbook that stores the filename before it reads the sheets, so
\* that a failure while reading leaves the filename changed.
LoadWorkbookResultEarlyFilename(sess, ent, d, filepath) ==
    IF filepath = << >> THEN [ok |-> TRUE, enter |-> FALSE, sess |-> sess, ent |-> ent]
    ELSE IF ~IsWorkbook(d[filepath])
    THEN [ok |-> FALSE, enter |-> FALSE, sess |-> sess, ent |-> ent]
    ELSE IF HasOddSheet(d[filepath]) \/ SummaryUnreadable(d[filepath])
    THEN [ok |-> FALSE, enter |-> FALSE,
          sess |-> [sess EXCEPT !.filename = filepath], ent |-> ent]
    ELSE LoadedWorkbook(sess,
                        IF d[filepath].summary.present /\ d[filepath].summary.hasPack
                        THEN [ent EXCEPT !.name = d[filepath].summary.packName \o @,
                                         !.code = d[filepath].summary.packCode \o @]
                        ELSE ent,
                        filepath, DOMAIN d[filepath].sheets)

LoadWorkbookResult(sess, ent, d, filepath) ==
    IF filepath = << >> THEN [ok |-> TRUE, enter |-> FALSE, sess |-> sess, ent |-> ent]
    ELSE IF ~IsWorkbook(d[filepath])
    THEN [ok |-> FALSE, enter |-> FALSE, sess |-> sess, ent |-> ent]
    ELSE IF HasOddSheet(d[filepath]) \/ SummaryUnreadable(d[filepath])
    THEN [ok |-> FALSE, enter |-> FALSE, sess |-> sess, ent |-> ent]
    ELSE LoadedWorkbook(sess,
                        IF d[filepath].summary.present /\ d[filepath].summary.hasPack
                        THEN [ent EXCEPT !.name = d[filepath].summary.packName \o @,
                                         !.code = d[filepath].summary.packCode \o @]
                        ELSE ent,
                        filepath, DOMAIN d[filepath].sheets)

LoadWorkbook ==
    /\ screen = "start"
    /\ \E filepath \in {<< >>} \cup DOMAIN disk :
         \E r \in {LoadWorkbookResult(session, entries, disk, filepath)} :
             /\ Len(r.ent.name) <= MaxNameLen /\ Len(r.ent.code) <= MaxNameLen
             /\ session' = r.sess
             /\ IF r.enter THEN ModuleEntryScreen(r.sess)
                ELSE /\ entries' = r.ent
                     /\ UNCHANGED <<screen, module_code_entry, cell_tree>>
             /\ last' = Did("load", IF r.ok THEN "ok" ELSE "error", "none", FALSE)
    /\ UNCHANGED <<disk, edits>>

\* ------------------------------------------------ module entry screen
\* on_cell_edit_done: the editor's text replaces one value of one row.
EditCell ==
    /\ screen = "module"
    /\ edits < MaxEdits
    /\ edits' = edits + 1
    /\ \E i \in 1..Len(cell_tree) :
         \/ \E t \in BatteryTexts : cell_tree' = [cell_tree EXCEPT ![i].bc = t]
         \/ \E t \in IRTexts : cell_tree' = [cell_tree EXCEPT ![i].ir = t]
         \/ \E t \in OCVTexts : cell_tree' = [cell_tree EXCEPT ![i].ocv = t]
    /\ last' = Did("edit", "none", "none", FALSE)
    /\ UNCHANGED <<session, screen, entries, module_code_entry, disk>>

\* The user types (or scans) a module code into the module code entry.
EditCode ==
    /\ screen = "module"
    /\ edits < MaxEdits
    /\ edits' = edits + 1
    /\ \E t \in CodeTexts : module_code_entry' = t
    /\ last' = Did("code", "none", "none", FALSE)
    /\ UNCHANGED <<session, screen, entries, cell_tree, disk>>

\* The outcome of a call of write_to_excel, as last.export records it: "ok",
\* "error" or "ioerror" ("none": the handler did not call it; "unconfirmed":
\* finish_session returned at its "Not all modules have been saved" question).
Export(w) == w.why

\* save_module_data() from the "Save Module Data" button (silent=False).
SaveModule ==
    /\ screen = "module"
    /\ \E confirm \in BOOLEAN, saveOk \in BOOLEAN :
         \E r \in {SaveModuleData(session, module_code_entry, cell_tree, FALSE, confirm)} :
             IF r.export
             THEN \E w \in {WriteToExcel([session EXCEPT !.module_data = r.md], disk, saveOk)} :
                    /\ session' = [session EXCEPT !.module_data = r.md,
                                                  !.modules_completed = w.modules_completed]
                    /\ disk' = w.disk
                    /\ last' = Did("save", r.why, Export(w), FALSE)
             ELSE /\ session' = [session EXCEPT !.module_data = r.md]
                  /\ disk' = disk
                  /\ last' = Did("save", r.why, "none", FALSE)
    /\ UNCHANGED <<screen, entries, module_code_entry, cell_tree, edits>>

\* A prev_module / next_module that names the workbook anew, as
\* start_new_session names it.
SwitchedRenamed(sess, r, step) ==
    [why |-> r.why,
     sess |-> [sess EXCEPT !.module_data = r.md, !.current_module_index = @ + step,
                           !.filename = GeneratedName(sess.pack_name)]]

\* The body of prev_module (step = -1) and next_module (step = 1) once the
\* index test has passed: save_module_data(silent=True), whose result is not
\* looked at, then the index moves.
Switched(sess, r, step) ==
    [why |-> r.why,
     sess |-> [sess EXCEPT !.module_data = r.md, !.current_module_index = @ + step]]

SwitchModule(sess, codeEntry, tree, step) ==
    Switched(sess, SaveModuleData(sess, codeEntry, tree, TRUE, TRUE), step)

\* if self.session["current_module_index"] > 1:
PrevAllowed(sess) == sess.current_module_index > 1

\* if self.session["current_module_index"] < self.session["num_modules"]:
NextAllowed(sess) == sess.current_module_index < sess.num_modules

\* load_module_data() as the last step of prev_module / next_module.
ShowModule ==
    \E shown \in {LoadModuleData(session', session'.current_module_index)} :
        /\ module_code_entry' = shown.code
        /\ cell_tree' = shown.tree

PrevModule ==
    /\ screen = "module"
    /\ IF PrevAllowed(session)
       THEN \E r \in {SwitchModule(session, module_code_entry, cell_tree, -1)} :
                /\ session' = r.sess
                /\ ShowModule
                /\ last' = Did("prev", r.why, "none", TRUE)
       ELSE /\ UNCHANGED <<session, module_code_entry, cell_tree>>
            /\ last' = Did("prev", "none", "none", FALSE)
    /\ UNCHANGED <<screen, entries, disk, edits>>

NextModule ==
    /\ screen = "module"
    /\ IF NextAllowed(session)
       THEN \E r \in {SwitchModule(session, module_code_entry, cell_tree, 1)} :
                /\ session' = r.sess
                /\ ShowModule
                /\ last' = Did("next", r.why, "none", TRUE)
       ELSE /\ UNCHANGED <<session, module_code_entry, cell_tree>>
            /\ last' = Did("next", "none", "none", FALSE)
    /\ UNCHANGED <<screen, entries, disk, edits>>

\* finish_session: buffer silently; ask when modules_completed < num_modules
\* (confirm is the answer); write_to_excel; close the window.
FinishSession ==
    /\ screen = "module"
    /\ \E confirm \in BOOLEAN, saveOk \in BOOLEAN :
         \E r \in {SaveModuleData(session, module_code_entry, cell_tree, TRUE, TRUE)} :
             IF ~r.ret
             THEN /\ UNCHANGED <<session, disk, screen>>
                  /\ last' = Did("finish", r.why, "none", FALSE)
             ELSE IF session.modules_completed < session.num_modules /\ ~confirm
             THEN /\ session' = [session EXCEPT !.module_data = r.md]
                  /\ UNCHANGED <<disk, screen>>
                  /\ last' = Did("finish", r.why, "unconfirmed", FALSE)
             ELSE \E w \in {WriteToExcel([session EXCEPT !.module_data = r.md], disk, saveOk)} :
                    /\ session' = [session EXCEPT !.module_data = r.md,
                                                  !.modules_completed = w.modules_completed]
                    /\ disk' = w.disk
                    /\ screen' = "closed"
                    /\ last' = Did("finish", r.why, Export(w), FALSE)
    /\ UNCHANGED <<entries, module_code_entry, cell_tree, edits>>

Next ==
    \/ TypeEntry
    \/ StartNewSession
    \/ LoadWorkbook
    \/ EditCell
    \/ EditCode
    \/ SaveModule
    \/ PrevModule
    \/ NextModule
    \/ FinishSession

Spec == Init /\ [][Next]_vars

\* ------------------------------------------- the checks at their limits
\* The session start_new_session leaves for pack "P" with nm modules of cpm
\* cells.
NewSessionOf(nm, cpm) ==
    StartNewSessionResult(FreshSession,
                          [name |-> <<"P">>, code |-> <<"P">>,
                           nm |-> ToString(nm), cpm |-> ToString(cpm)]).sess

\* The module entry screen of a new session after the user has filled the
\* table: every row has a battery code, and an IR and an OCV text taken at
\* the limits of the checks.
InitRows ==
    /\ session = NewSessionOf(MaxModules, MaxCells)
    /\ screen = "module"
    /\ entries = NoEntries
    /\ module_code_entry = << >>
    /\ cell_tree \in [1..MaxCells -> [ci : 1..MaxCells, bc : BatteryTexts,
                                       ir : BoundIRTexts, ocv : BoundOCVTexts,
                                       notes : {""}]]
    /\ \A i \in 1..MaxCells : cell_tree[i].ci = i
    /\ disk = InitDisk
    /\ last = Did("edit", "none", "none", FALSE)
    /\ edits = MaxEdits

\* The handlers that call save_module_data.
NextRows ==
    \/ SaveModule
    \/ PrevModule
    \/ NextModule
    \/ FinishSession

SpecRows == InitRows /\ [][NextRows]_vars

\* ------------------------------------------------ write_to_excel alone
\* module_data after modules 1..n were buffered in turn with the fresh rows
\* of the module entry screen.
RECURSIVE BufferedUpTo(_, _)
BufferedUpTo(sess, n) ==
    IF n = 0 THEN << >>
    ELSE SaveModuleData([sess EXCEPT !.module_data = BufferedUpTo(sess, n - 1),
                                     !.current_module_index = n],
                        << >>, FreshRows(sess.cells_per_module), TRUE, TRUE).md

\* The files write_to_excel is given: the name of a new session, or a
\* workbook that exists.
PersistTargets ==
    {GeneratedName(<<"P">>)} \cup {p \in DOMAIN InitDisk : IsWorkbook(InitDisk[p])}

\* A session on the module entry screen with 0..num_modules modules buffered
\* and nothing persisted yet.
InitPersist ==
    /\ \E nm \in 1..MaxModules, n \in 0..MaxModules, f \in PersistTargets :
          /\ n <= nm
          /\ session = [NewSessionOf(nm, MaxCells) EXCEPT
                           !.filename = f,
                           !.module_data = BufferedUpTo(NewSessionOf(nm, MaxCells), n)]
    /\ screen = "module"
    /\ entries = NoEntries
    /\ module_code_entry = << >>
    /\ cell_tree = FreshRows(MaxCells)
    /\ disk = InitDisk
    /\ last = Did("init", "none", "none", FALSE)
    /\ edits = MaxEdits

\* write_to_excel called on the session as it is.
Persist ==
    /\ screen = "module"
    /\ \E saveOk \in BOOLEAN :
         \E w \in {WriteToExcel(session, disk, saveOk)} :
             /\ session' = [session EXCEPT !.modules_completed = w.modules_completed]
             /\ disk' = w.disk
             /\ last' = Did("persist", "none", Export(w), FALSE)
    /\ UNCHANGED <<screen, entries, module_code_entry, cell_tree, edits>>

NextPersist == Persist

SpecPersist == InitPersist /\ [][NextPersist]_vars

\* ------------------------------------- the Summary of any set of sheets
\* The module indices of the sheets of a workbook: the first and the last
\* index of each number of digits up to MaxDigits (1, 9, 10, 99, 100, ...).
RECURSIVE Pow10(_)
Pow10(k) == IF k = 0 THEN 1 ELSE 10 * Pow10(k - 1)

SheetIndices ==
    {Pow10(k) : k \in 0..(MaxDigits - 1)} \cup {Pow10(k) - 1 : k \in 1..(MaxDigits - 1)}

\* A set of indices as a sequence, smallest first.
RECURSIVE Ascending(_)
Ascending(S) ==
    IF S = {} THEN << >>
    ELSE LET m == CHOOSE x \in S : \A y \in S : x <= y
         IN  <<m>> \o Ascending(S \ {m})

\* A workbook without Summary that holds the sheets f"Module_{i:03d}" for
\* the indices i in S, and its path.
BookWith(S) ==
    [order |-> Ascending(S), sheets |-> [i \in S |-> OldSheet(i, FALSE)],
     summary |-> NoSummary]

SheetsPath == <<"sheets.xlsx">>

\* A session on such a workbook, nothing buffered.
InitSorted ==
    /\ \E S \in SUBSET SheetIndices : disk = (SheetsPath :> BookWith(S)) @@ InitDisk
    /\ session = [NewSessionOf(MaxModules, MaxCells) EXCEPT !.filename = SheetsPath]
    /\ screen = "module"
    /\ entries = NoEntries
    /\ module_code_entry = << >>
    /\ cell_tree = FreshRows(MaxCells)
    /\ last = Did("init", "none", "none", FALSE)
    /\ edits = MaxEdits

NextSorted == Persist

SpecSorted == InitSorted /\ [][NextSorted]_vars

\* ------------------------------------ a loaded workbook, navigation only
\* The workbooks load_workbook opens without an error.
LoadablePaths ==
    {p \in DOMAIN InitDisk :
        /\ IsWorkbook(InitDisk[p])
        /\ ~HasOddSheet(InitDisk[p]) /\ ~SummaryUnreadable(InitDisk[p])}

\* What the user typed on the start screen before "Load Existing Workbook":
\* the counts, and the pack name and code where the Summary holds none.
TypedFor(f, nm) ==
    LET has == InitDisk[f].summary.present /\ InitDisk[f].summary.hasPack
    IN  [name |-> IF has THEN << >> ELSE <<"P">>,
         code |-> IF has THEN << >> ELSE <<"P">>,
         nm |-> ToString(nm), cpm |-> ToString(MaxCells)]

\* The module entry screen as load_workbook opens it, for a pack of up to
\* one module more than the workbook's sheets.
InitLoaded ==
    /\ \E f \in LoadablePaths, nm \in 1..(MaxOldSheets + 1) :
          session = LoadWorkbookResult(FreshSession, TypedFor(f, nm), InitDisk, f).sess
    /\ screen = "module"
    /\ entries = NoEntries
    /\ module_code_entry = << >>
    /\ cell_tree = FreshRows(MaxCells)
    /\ disk = InitDisk
    /\ last = Did("load", "ok", "none", FALSE)
    /\ edits = 0

\* The module on the screen has a sheet in the workbook as it was loaded.
OnLoadedSheet == session.current_module_index \in DOMAIN InitDisk[session.filename].sheets

\* The user enters data only for modules the loaded workbook has no sheet of.
EditNewModule == ~OnLoadedSheet /\ EditCell

\* Navigation, data entry for new modules, and finish_session as the persist;
\* no "Save Module Data".
NextLoaded ==
    \/ EditNewModule
    \/ PrevModule
    \/ NextModule
    \/ FinishSession

SpecLoaded == InitLoaded /\ [][NextLoaded]_vars

\* ============================================================ claims
Buffering == {"save", "prev", "next", "finish"}

\* The values of last.export that say write_to_excel was called, and those
\* that say it ended in its except clause.
Exported == {"ok", "error", "ioerror"}

ExportFailed == {"error", "ioerror"}

Absent(x) == x.k \in {"none", "nan"}

\* A buffered value is what the text on screen said: nothing, or its number.
HoldsText(x, t) == IF t = "" THEN Absent(x) ELSE x = ParseFloat(t)

\* A buffered module record holds the module code and the rows of the screen.
HoldsScreen(rec, codeEntry, tree) ==
    /\ rec.module_code = Strip(codeEntry)
    /\ Len(rec.dataframe) = Len(tree)
    /\ \A i \in 1..Len(tree) :
         /\ rec.dataframe[i].ci = tree[i].ci
         /\ rec.dataframe[i].bc = tree[i].bc
         /\ rec.dataframe[i].notes = tree[i].notes
         /\ HoldsText(rec.dataframe[i].ir, tree[i].ir)
         /\ HoldsText(rec.dataframe[i].ocv, tree[i].ocv)

\* The data rows of a module sheet as a persist of record rec lays them out:
\* the header in row 1, the buffered rows in rows 2..n+1.
SheetOf(rec) ==
    <<Header>> \o [j \in 1..Len(rec.dataframe) |-> DataRow(rec.dataframe[j])]

\* C1: whenever the module entry screen is open, 1 <= current_module_index
\* <= num_modules.
C1_IndexInRange ==
    screen = "module" =>
        /\ 1 <= session.current_module_index
        /\ session.current_module_index <= session.num_modules

\* C2: a save_module_data call that fails validation leaves module_data
\* exactly as it was and goes on to no export.
C2_FailedValidationKeepsBuffer ==
    [][(last'.op \in Buffering /\ last'.ret = "invalid") =>
           /\ session'.module_data = session.module_data
           /\ last'.export = "none"]_vars

\* C2 witness: a save on a module that is already buffered failed on row 2
\* after row 1 had passed.
C2_Witness ==
    /\ last.op = "save" /\ last.ret = "invalid"
    /\ session.current_module_index \in MDKeys(session.module_data)
    /\ Len(cell_tree) >= 2
    /\ CheckRow(cell_tree[1]).ok /\ cell_tree[1].ir # ""
    /\ ~CheckRow(cell_tree[2]).ok

\* C3: whenever prev_module / next_module moves the index from k, module_data[k]
\* exists afterwards and holds the module code and rows that were on screen.
C3_NavigationBuffersFirst ==
    [][last'.moved =>
           /\ session.current_module_index \in MDKeys(session'.module_data)
           /\ HoldsScreen(MDGet(session'.module_data, session.current_module_index),
                          module_code_entry, cell_tree)]_vars

\* C4: when the silent buffering of prev_module / next_module fails
\* validation, the index is unchanged and the entered rows stay on screen.
C4_FailedNavigationStays ==
    [][(last'.op \in {"prev", "next"} /\ last'.ret = "invalid") =>
           /\ session'.current_module_index = session.current_module_index
           /\ cell_tree' = cell_tree
           /\ module_code_entry' = module_code_entry]_vars

\* C5 as claimed: every save, previous/next and finish action that buffers
\* successfully calls write_to_excel within the same action.
C5_EveryBufferingExports ==
    (last.op \in Buffering /\ last.ret = "ok") => last.export \in Exported

\* C5 amended: an explicit save that buffers successfully, and a finish that
\* buffers successfully and is not declined at its confirmation, call
\* write_to_excel within the same action; previous/next only buffer.
C5_SaveAndFinishExport ==
    /\ (last.op = "save" /\ last.ret = "ok") => last.export \in Exported
    /\ (last.op = "finish" /\ last.ret = "ok") => last.export \in Exported \cup {"unconfirmed"}
    /\ last.op \in {"prev", "next"} => last.export = "none"
    /\ last.ret # "ok" => last.export = "none"

\* C5 witness: an explicit save buffered a module and ran the export.
C5_Witness ==
    /\ last.op = "save" /\ last.ret = "ok" /\ last.export \in Exported
    /\ session.current_module_index \in MDKeys(session.module_data)

\* C6: modules_completed changes only in an action whose write_to_excel saved
\* the workbook, and is then the number of Module_ sheets of the saved file;
\* a failed write_to_excel leaves modules_completed, the files, the index and
\* the buffer (as the handler had just filled it) alone.
C6_CounterOnlyAfterSave ==
    [][/\ session'.modules_completed # session.modules_completed => last'.export = "ok"
       /\ last'.export = "ok" =>
              /\ session'.filename \in DOMAIN disk'
              /\ session'.modules_completed =
                     Cardinality(DOMAIN disk'[session'.filename].sheets)
       /\ last'.export \in ExportFailed =>
              /\ session'.modules_completed = session.modules_completed
              /\ session'.current_module_index = session.current_module_index
              /\ session'.module_data =
                     SaveModuleData(session, module_code_entry, cell_tree, TRUE, TRUE).md]_vars

\* C6 witness: a persist saved the workbook and set modules_completed.
C6_Witness == last.export = "ok" /\ session.modules_completed > 0

\* The session writes to a file that start_new_session named.
NewSession == session.filename = GeneratedName(session.pack_name)

\* C7: in a new session with n >= 1 modules buffered, persist (the disk
\* accepting the save) succeeds and the Summary has n module rows (rows
\* 2..n+1), PACK_TOTALS in row n+2, and IR_RANGE of the row at r is
\* =E<r>-F<r>.
C7_NewSessionPersist ==
    (screen # "start" /\ NewSession /\ last.export \in {"ok", "error"}
        /\ Len(session.module_data) >= 1) =>
        /\ last.export = "ok"
        /\ session.filename \in DOMAIN disk
        /\ LET sm == disk[session.filename].summary
               n == Len(session.module_data)
           IN  /\ sm.present
               /\ Len(sm.rows) = n
               /\ sm.finalRow = n + 2
               /\ \A i \in 1..Len(sm.rows) :
                    /\ sm.rows[i].rowNum = i + 1
                    /\ sm.rows[i].irRangeFormula =
                           [max |-> <<"E", i + 1>>, min |-> <<"F", i + 1>>]

\* C8: after a successful persist, each Summary row's ModuleCode and CellCount
\* are the module code and the number of data rows this persist wrote to the
\* module sheet.
C8_SummaryReadsWhatWasWritten ==
    last.export = "ok" =>
        LET wb == disk[session.filename]
        IN  \A i \in 1..Len(wb.summary.rows) :
              LET idx == wb.summary.rows[i].moduleIndex
                  data == SelectSeq(wb.sheets[idx].rows, LAMBDA r : r.k = "data")
              IN  /\ wb.summary.rows[i].cellCount = Len(data)
                  /\ data # << >> =>
                       wb.summary.rows[i].moduleCode =
                           (IF data[1].row.mc = << >> THEN <<"nan">> ELSE data[1].row.mc)

\* C9: a persist that follows a successful persist with module_data unchanged
\* succeeds too (the disk accepting the save), every buffered module's sheet
\* has the header in row 1 and the buffered rows in rows 2..n+1 before and
\* after it, and the Summary's ranges are the same after it as before.
C9_PersistIdempotent ==
    [][(/\ last.export = "ok"
        /\ last'.op \in {"save", "finish"} /\ last'.export \in {"ok", "error"}
        /\ session'.module_data = session.module_data) =>
           /\ last'.export = "ok"
           /\ \A i \in 1..Len(session.module_data) :
                LET k == session.module_data[i].key
                    rec == session.module_data[i].val
                IN  /\ disk[session.filename].sheets[k].rows = SheetOf(rec)
                    /\ disk'[session.filename].sheets[k].rows = SheetOf(rec)
           /\ disk'[session.filename].summary.allIr = disk[session.filename].summary.allIr
           /\ disk'[session.filename].summary.allOcv = disk[session.filename].summary.allOcv]_vars

\* C10: every buffered row has IR_mOhm absent or > 0 and OCV_V absent or
\* within [OCV_MIN, OCV_MAX].
C10_BufferedRowsInRange ==
    \A i \in 1..Len(session.module_data) :
        LET df == session.module_data[i].val.dataframe
        IN  \A j \in 1..Len(df) :
              /\ Absent(df[j].ir) \/ (df[j].ir.k = "num" /\ df[j].ir.v > 0)
              /\ Absent(df[j].ocv) \/
                 (df[j].ocv.k = "num" /\ OCV_MIN <= df[j].ocv.v /\ df[j].ocv.v <= OCV_MAX)

\* C10 witness: a module was buffered by navigation with a measured IR and OCV.
C10_Witness ==
    /\ last.op \in {"prev", "next"}
    /\ \E i \in 1..Len(session.module_data) :
         \E j \in 1..Len(session.module_data[i].val.dataframe) :
            /\ session.module_data[i].val.dataframe[j].ir.k = "num"
            /\ session.module_data[i].val.dataframe[j].ocv.k = "num"

\* C11: a row with OCV 0.0 or 6.0 is accepted and buffered with that value,
\* a row with OCV -0.01 or 6.01 is rejected; a row with IR 0 is rejected (not
\* stored as absent), a row with IR 0.0001 is accepted and buffered.
C11_DecisionAtTheLimits ==
    [][(/\ last'.op \in Buffering /\ last'.ret # "none"
        /\ \A i \in 1..Len(cell_tree) : /\ cell_tree[i].ir \in BoundIRTexts
                                         /\ cell_tree[i].ocv \in BoundOCVTexts) =>
         LET k == session.current_module_index
             rejected(r) == r.ocv \in {"-0.01", "6.01"} \/ r.ir \in {"0", "0.0"}
         IN  /\ last'.ret = "invalid" <=> \E i \in 1..Len(cell_tree) : rejected(cell_tree[i])
             /\ last'.ret = "ok" =>
                   /\ k \in MDKeys(session'.module_data)
                   /\ \A i \in 1..Len(cell_tree) :
                        LET row == MDGet(session'.module_data, k).dataframe[i]
                        IN  /\ cell_tree[i].ocv \in {"0.0", "6.0"} =>
                                  row.ocv = Num(FloatTable[cell_tree[i].ocv])
                            /\ cell_tree[i].ir = "0.0001" => row.ir = Num(1)]_vars

\* C12: prev_module / next_module move current_module_index by exactly one
\* step and only onto a target within [1, num_modules]; prev_module at index
\* 1 and next_module at an index >= num_modules change nothing and buffer
\* nothing; otherwise the index changes by exactly -1 or +1.
C12_NavigateOneStepInRange ==
    [][last'.op \in {"prev", "next"} =>
         LET i == session.current_module_index
             j == session'.current_module_index
             step == IF last'.op = "prev" THEN -1 ELSE 1
             atEdge == IF last'.op = "prev" THEN i = 1 ELSE i >= session.num_modules
         IN  /\ j # i => j \in 1..session.num_modules
             /\ atEdge => /\ session' = session
                          /\ cell_tree' = cell_tree
                          /\ module_code_entry' = module_code_entry
                          /\ last'.ret = "none"
             /\ ~atEdge => j = i + step]_vars

\* C13: the missing-battery-code question gates the commit only when
\* save_module_data is not silent: a declined explicit save leaves
\* module_data and the files alone and calls no write_to_excel; a save
\* through prev_module, next_module or finish_session is never declined and
\* commits the rows on screen whenever they pass validation; an explicit save
\* of valid rows that is not declined commits them too.
C13_PromptGatesExplicitSaveOnly ==
    [][(last'.op \in Buffering /\ last'.ret # "none") =>
         LET k == session.current_module_index
             valid == \A i \in 1..Len(cell_tree) : CheckRow(cell_tree[i]).ok
             missing == \E i \in 1..Len(cell_tree) : ~Truthy(cell_tree[i].bc)
             committed == /\ k \in MDKeys(session'.module_data)
                          /\ HoldsScreen(MDGet(session'.module_data, k),
                                         module_code_entry, cell_tree)
         IN  /\ last'.ret = "declined" =>
                   /\ last'.op = "save" /\ valid /\ missing
                   /\ session' = session
                   /\ disk' = disk
                   /\ last'.export = "none"
             /\ (valid /\ (last'.op # "save" \/ ~missing)) => last'.ret = "ok"
             /\ last'.ret = "ok" => committed]_vars

\* C13 witness: the user declined an explicit save of rows with measurements
\* and a missing battery code.
C13_Witness ==
    /\ last.op = "save" /\ last.ret = "declined"
    /\ \E i \in 1..Len(cell_tree) : cell_tree[i].ir # "" /\ ~Truthy(cell_tree[i].bc)

\* C14: every key of module_data is within [1, num_modules].
C14_KeysInRange ==
    \A k \in MDKeys(session.module_data) : k \in 1..session.num_modules

\* C15: whenever start_new_session succeeds, the session it leaves has
\* current_module_index = 1 and an empty module_data.
C15_StartNewSessionResets ==
    (last.op = "start" /\ last.ret = "ok") =>
        /\ session.current_module_index = 1
        /\ session.module_data = << >>

\* C16 as claimed: once session.filename is set, no later action changes it.
C16_FilenameWriteOnce ==
    [][session.filename # << >> => session'.filename = session.filename]_vars

\* C16 amended: session.filename is fixed from the moment the module entry
\* screen is open (after a successful start_new_session, or a load_workbook
\* that went on to module entry): save, navigation and finish never change
\* it.  On the start screen a later load_workbook or start_new_session
\* replaces the filename an earlier load_workbook left.
C16_FilenameFixedOnModuleScreen ==
    [][screen # "start" => session'.filename = session.filename]_vars

\* C16 witness: navigation moved to another module of a loaded workbook.
C16_Witness ==
    /\ last.op \in {"prev", "next"} /\ last.moved
    /\ session.filename \in DOMAIN InitDisk

\* The highest index among the Module_ sheets of workbook f, 0 without any.
HighestIndex(f) ==
    IF DOMAIN f.sheets = {} THEN 0
    ELSE CHOOSE m \in DOMAIN f.sheets : \A x \in DOMAIN f.sheets : x <= m

\* C17: a load_workbook that raised no error leaves current_module_index at
\* the highest Module_ index of the workbook plus one (1 without module
\* sheets); a workbook without a Summary adds nothing to the pack entries, so
\* pack_name and pack_code are what the user typed, and blank when the user
\* typed nothing.
C17_LoadSetsNextIndex ==
    [][(last'.op = "load" /\ last'.ret = "ok" /\ session'.filename \in DOMAIN disk) =>
         LET f == disk[session'.filename]
         IN  /\ session'.current_module_index = HighestIndex(f) + 1
             /\ ~f.summary.present =>
                   /\ session'.pack_name \in {<< >>, Strip(entries.name)}
                   /\ session'.pack_code \in {<< >>, Strip(entries.code)}
                   /\ (entries.name = << >> /\ entries.code = << >>) =>
                         (session'.pack_name = << >> /\ session'.pack_code = << >>)
                   /\ screen' = "start" => entries' = entries]_vars

\* C17 witness: the workbook with sheets Module_001..Module_<MaxOldSheets> and
\* no Summary was loaded with nothing typed: the index is MaxOldSheets + 1
\* and the pack fields are blank.
C17_Witness ==
    /\ last.op = "load" /\ last.ret = "ok"
    /\ session.filename = OldPath("plain", MaxOldSheets)
    /\ session.current_module_index = MaxOldSheets + 1
    /\ session.pack_name = << >> /\ session.pack_code = << >>

RangeRows(a, b) == IF a <= b THEN a..b ELSE b..a

\* C19: after a persist of a workbook with n >= 0 module sheets the
\* PACK_TOTALS row is row n + 2, directly after the last module row, and its
\* CellCount formula sums exactly the rows 2..n+1; a persist with no module
\* buffered on a new workbook succeeds (the disk accepting the save) and its
\* Summary has no module row.
C19_PackTotalsSumsModuleRows ==
    /\ (last.op = "persist" /\ last.export = "ok") =>
          LET sm == disk[session.filename].summary
              n == Len(sm.rows)
          IN  /\ sm.present
              /\ n = Cardinality(DOMAIN disk[session.filename].sheets)
              /\ sm.finalRow = n + 2
              /\ RangeRows(sm.sumFirst, sm.sumLast) = 2..(n + 1)
    /\ (/\ last.op = "persist" /\ last.export \in {"ok", "error"}
        /\ NewSession /\ session.module_data = << >>) =>
          /\ last.export = "ok"
          /\ disk[session.filename].summary.rows = << >>

\* The four fields validate_pack_setup writes.
PackFields(sess) ==
    <<sess.pack_name, sess.pack_code, sess.num_modules, sess.cells_per_module>>

\* C20: whenever the module entry screen is open (save, navigation and finish
\* are enabled only there), pack_name and pack_code are non-empty and
\* num_modules and cells_per_module are > 0; a start_new_session or
\* load_workbook that stays on the start screen (validate_pack_setup failed
\* or was not reached) changes none of the four fields.
C20_WorkflowNeedsValidPack ==
    [][/\ screen' = "module" =>
            /\ session'.pack_name # << >> /\ session'.pack_code # << >>
            /\ session'.num_modules > 0 /\ session'.cells_per_module > 0
       /\ (last'.op \in {"start", "load"} /\ screen' = "start") =>
            PackFields(session') = PackFields(session)]_vars

\* C20 witness: start_new_session failed validation with a pack name and a
\* pack code typed in.
C20_Witness ==
    /\ last.op = "start" /\ last.ret = "invalid"
    /\ Strip(entries.name) # << >> /\ Strip(entries.code) # << >>

\* C21: a write_to_excel that failed aborts the handler that called it: the
\* "Save Module Data" button does not report the module as saved (no "Saved
\* Module" status, no True result), and finish_session does not declare the
\* session complete and does not close the window.
C21_PersistErrorAborts ==
    /\ (last.op = "save" /\ last.export \in ExportFailed) => last.ret # "ok"
    /\ (last.op = "finish" /\ last.export \in ExportFailed) => screen # "closed"

\* The workbook write_to_excel opens for the session (load_workbook of the
\* file, or a new Workbook) and the sheets its module loop creates, in the
\* order of creation: what the loop appends to wb.sheetnames.
OpenedWorkbook == IF session.filename \in DOMAIN disk THEN disk[session.filename]
                  ELSE EmptyWorkbook

CreatedSheets ==
    LET w == WriteSheets(OpenedWorkbook, session.module_data, 1)
    IN  SubSeq(w.wb.order, Len(OpenedWorkbook.order) + 1, Len(w.wb.order))

\* C22: whatever the order in which the modules were buffered, the sheets the
\* module loop of write_to_excel creates are created in ascending order of
\* module index.
C22_NewSheetsAscending ==
    (screen = "module" /\ IsWorkbook(OpenedWorkbook)) =>
        \A i, j \in 1..Len(CreatedSheets) :
            i < j => CreatedSheets[i] < CreatedSheets[j]

\* C23: for every set of module indices present as sheets, indices of 1000
\* and above included, the module rows of the Summary a persist writes are
\* in ascending integer order of ModuleIndex.
C23_SummaryRowsAscending ==
    (last.op = "persist" /\ last.export = "ok") =>
        LET rows == disk[session.filename].summary.rows
        IN  \A i, j \in 1..Len(rows) :
                i < j => rows[i].moduleIndex < rows[j].moduleIndex

\* The measurement rows a sheet holds.
DataRowsOf(sheet) == SelectSeq(sheet.rows, LAMBDA r : r.k = "data")

\* C24: in a session that loaded a workbook and in which the user entered
\* data only for modules without a sheet and never pressed "Save Module
\* Data", every sheet of the loaded workbook other than that of the module
\* on the screen still holds the measurement rows it was loaded with,
\* whatever was navigated over and persisted.
C24_NavigationKeepsLoadedRows ==
    \A idx \in DOMAIN InitDisk[session.filename].sheets :
        idx # session.current_module_index =>
            DataRowsOf(disk[session.filename].sheets[idx])
                = DataRowsOf(InitDisk[session.filename].sheets[idx])

\* Two buffered values are the same measurement: both absent, or equal.
SameValue(x, y) == IF Absent(x) THEN Absent(y) ELSE x = y

\* Two buffered module records are the same but for the timestamps.
SameRecord(a, b) ==
    /\ a.module_code = b.module_code
    /\ Len(a.dataframe) = Len(b.dataframe)
    /\ \A i \in 1..Len(a.dataframe) :
         /\ a.dataframe[i].ci = b.dataframe[i].ci
         /\ a.dataframe[i].bc = b.dataframe[i].bc
         /\ a.dataframe[i].notes = b.dataframe[i].notes
         /\ SameValue(a.dataframe[i].ir, b.dataframe[i].ir)
         /\ SameValue(a.dataframe[i].ocv, b.dataframe[i].ocv)

\* C25: when prev_module / next_module has just arrived at a module that is
\* buffered, buffering what load_module_data put on the screen, without an
\* edit, passes validation and stores the record that was buffered before
\* (timestamps aside; an absent IR or OCV stays absent).
C25_RedisplayRoundTrip ==
    (/\ screen = "module" /\ last.moved
     /\ session.current_module_index \in MDKeys(session.module_data)) =>
        LET r == SaveModuleData(session, module_code_entry, cell_tree, TRUE, TRUE)
        IN  /\ r.ret
            /\ SameRecord(MDGet(r.md, session.current_module_index),
                          MDGet(session.module_data, session.current_module_index))

====
